---- MODULE Spec2Model ----
(***************************************************************************)
(* The gin-logger interceptor chain (gin.go): one request travelling down  *)
(* an ordered chain of middleware to an application handler and back up.   *)
(* Text (paths, identifiers, bodies) is a sequence of one-character        *)
(* strings; messages, levels and field names are plain strings.            *)
(***************************************************************************)
EXTENDS Integers, Sequences, FiniteSets, TLC

VARIABLES
    chain,       \* the middleware registered with r.Use, outermost first
    config,      \* the configuration the middleware were built with
    phase,       \* "idle", "pre", "handler", "post", "done"
    idx,         \* index in chain of the frame that is running
    req,         \* the inbound request (immutable once received)
    handler,     \* the application handler the route resolved to
    body,        \* c.Request.Body, the stream the next reader will see
    ctx,         \* gin.Context keys (c.Set / c.GetString)
    respHeader,  \* response headers (c.Header)
    status,      \* c.Writer.Status()
    aborted,     \* c.IsAborted()
    errors,      \* c.Errors
    panicked,    \* a panic travelling up the stack, if any
    unwound,     \* frames a panic has left without running their tail
    log,         \* the events handed to the logging backend, in order
    now,         \* the clock, in nanoseconds
    perfStart,   \* PerformanceLogger's local start
    slLocal,     \* StructuredLogger's locals across c.Next()
    glLocal,     \* GinLoggerWithConfig's locals across c.Next()
    hpc,         \* position in the handler
    seenBody,    \* what the handler read from c.Request.Body
    readers,     \* the middleware that ran io.ReadAll on the body
    handles,     \* the loggers the handler got from LoggerFromContext
    nextCalls,   \* how often each middleware has called c.Next()
    issued       \* the identifiers generateRequestID has returned so far

vars == <<chain, config, phase, idx, req, handler, body, ctx, respHeader,
          status, aborted, errors, panicked, unwound, log, now, perfStart,
          slLocal, glLocal, hpc, seenBody, readers, handles, nextCalls,
          issued>>

----------------------------------------------------------------------------
(* Text helpers. *)

EmptyStr == <<>>

upperLetters == <<"A", "B", "C", "D", "E", "F", "G", "H", "I", "J", "K", "L", "M", "N", "O", "P", "Q", "R", "S", "T", "U", "V", "W", "X", "Y", "Z">>

lowerLetters == <<"a", "b", "c", "d", "e", "f", "g", "h", "i", "j", "k", "l", "m", "n", "o", "p", "q", "r", "s", "t", "u", "v", "w", "x", "y", "z">>

decimalDigits == <<"0", "1", "2", "3", "4", "5", "6", "7", "8", "9">>

\* (?i): letters compare by their lower-case form
LowerChar(c) ==
    IF \E i \in DOMAIN upperLetters : upperLetters[i] = c
    THEN lowerLetters[CHOOSE i \in DOMAIN upperLetters : upperLetters[i] = c]
    ELSE c

ToLower(s) == [i \in 1..Len(s) |-> LowerChar(s[i])]

\* an unanchored match of a literal
Contains(s, lit) ==
    \E i \in 0..(Len(s) - Len(lit)) : SubSeq(s, i + 1, i + Len(lit)) = lit

HasPrefix(s, p) == Len(s) >= Len(p) /\ SubSeq(s, 1, Len(p)) = p

\* position of the first c in s, 0 when there is none
IndexOf(s, c) ==
    IF \E i \in 1..Len(s) : s[i] = c
    THEN CHOOSE i \in 1..Len(s) : s[i] = c /\ \A j \in 1..(i - 1) : s[j] # c
    ELSE 0

\* c.Request.URL.Path: the request target up to the first "?"
URLPath(target) ==
    IF IndexOf(target, "?") = 0 THEN target
    ELSE SubSeq(target, 1, IndexOf(target, "?") - 1)

\* c.Request.URL.RawQuery: what follows the first "?"
URLRawQuery(target) ==
    IF IndexOf(target, "?") = 0 THEN EmptyStr
    ELSE SubSeq(target, IndexOf(target, "?") + 1, Len(target))

----------------------------------------------------------------------------
(* Log fields, loggers and events. *)

Field(k, v) == [k |-> k, v |-> v]

HasField(fields, key) == \E i \in 1..Len(fields) : fields[i].k = key

FieldValue(fields, key) ==
    fields[CHOOSE i \in 1..Len(fields) : fields[i].k = key].v

\* GetLogger(): the process-wide logger, nothing bound
GetLogger == [scoped |-> FALSE, bound |-> <<>>]

\* logger.With(fields...)
With(logger, fields) == [scoped |-> TRUE, bound |-> logger.bound \o fields]

\* logger.Error / Warn / Info / Debug (by names the emitting function)
Emit(events, by, logger, level, msg, fields) ==
    Append(events, [by |-> by, level |-> level, msg |-> msg,
                    fields |-> logger.bound \o fields])

\* c.Set / c.GetString on the context's key map
NoKeys == [k \in {} |-> EmptyStr]

Set(m, key, value) ==
    [k \in (DOMAIN m) \cup {key} |-> IF k = key THEN value ELSE m[k]]

GetString(m, key) == IF key \in DOMAIN m THEN m[key] ELSE EmptyStr

----------------------------------------------------------------------------
(* Request identifiers: generateRequestID and randomString. *)

Second == 1000000000

charset == <<"a", "b", "c", "d", "e", "f", "g", "h", "i", "j", "k", "l", "m", "n", "o", "p", "q", "r", "s", "t", "u", "v", "w", "x", "y", "z", "A", "B", "C", "D", "E", "F", "G", "H", "I", "J", "K", "L", "M", "N", "O", "P", "Q", "R", "S", "T", "U", "V", "W", "X", "Y", "Z", "0", "1", "2", "3", "4", "5", "6", "7", "8", "9">>

RandomLength == 8

TwoDigits(n) == <<decimalDigits[(n \div 10) + 1], decimalDigits[(n % 10) + 1]>>

\* time.Time.Format("20060102150405"): whole seconds only. The clock counts
\* from 1970-01-01 00:00:00 and the model never leaves that day.
FormatTime(t) ==
    LET secs == t \div Second
    IN  <<"1", "9", "7", "0", "0", "1", "0", "1">>
            \o TwoDigits((secs \div 3600) % 24)
            \o TwoDigits((secs \div 60) % 60)
            \o TwoDigits(secs % 60)

\* randomString(length): reads[i] is the clock (UnixNano) read for byte i
randomString(reads) ==
    [i \in 1..Len(reads) |-> charset[(reads[i] % Len(charset)) + 1]]

\* generateRequestID(): t is the clock read by Format
generateRequestID(t, reads) == FormatTime(t) \o <<"-">> \o randomString(reads)

\* the clock readings of one randomString(8) call that starts at t and during
\* which the clock advances by drift nanoseconds, half way through
ClockReads(t, drift) ==
    [i \in 1..RandomLength |-> IF 2 * i <= RandomLength THEN t ELSE t + drift]

----------------------------------------------------------------------------
(* SecurityLogger's signatures. *)

sqlKeywords ==
    { <<"u", "n", "i", "o", "n">>, <<"s", "e", "l", "e", "c", "t">>,
      <<"i", "n", "s", "e", "r", "t">>, <<"d", "e", "l", "e", "t", "e">>,
      <<"d", "r", "o", "p">>, <<"c", "r", "e", "a", "t", "e">>,
      <<"a", "l", "t", "e", "r">>, <<"e", "x", "e", "c">>,
      <<"s", "c", "r", "i", "p", "t">> }

xssMarkers ==
    { <<"<", "s", "c", "r", "i", "p", "t">>,
      <<"j", "a", "v", "a", "s", "c", "r", "i", "p", "t", ":">>,
      <<"o", "n", "l", "o", "a", "d", "=">>,
      <<"o", "n", "e", "r", "r", "o", "r", "=">> }

traversalMarker == <<".", ".", "/">>

MatchSQL(path) == \E k \in sqlKeywords : Contains(ToLower(path), k)

MatchXSS(path) == \E k \in xssMarkers : Contains(ToLower(path), k)

MatchTraversal(path) == Contains(path, traversalMarker)

\* the three checks as an if / else-if chain: the first match decides
SecurityReasonFirstMatch(path) ==
    IF MatchSQL(path) THEN "SQL injection attempt"
    ELSE IF MatchXSS(path) THEN "XSS attempt"
    ELSE IF MatchTraversal(path) THEN "Path traversal attempt"
    ELSE ""

\* the three checks in source order, each overwriting reason; "" = not suspicious
SecurityReason(path) ==
    LET r1 == IF MatchSQL(path) THEN "SQL injection attempt" ELSE ""
        r2 == IF MatchXSS(path) THEN "XSS attempt" ELSE r1
        r3 == IF MatchTraversal(path) THEN "Path traversal attempt" ELSE r2
    IN  r3

Suspicious(path) == MatchSQL(path) \/ MatchXSS(path) \/ MatchTraversal(path)

----------------------------------------------------------------------------
(* Classification, the context accessor, body capture. *)

\* StructuredLoggerSeverity with the first comparison off by one
StructuredLoggerSeverityStrict(s) ==
    IF s > 500 THEN [level |-> "error", msg |-> "Server error"]
    ELSE IF s >= 400 THEN [level |-> "warn", msg |-> "Client error"]
    ELSE IF s >= 300 THEN [level |-> "info", msg |-> "Redirection"]
    ELSE [level |-> "info", msg |-> "Request completed"]

\* the switch on c.Writer.Status() at the end of StructuredLogger
StructuredLoggerSeverity(s) ==
    IF s >= 500 THEN [level |-> "error", msg |-> "Server error"]
    ELSE IF s >= 400 THEN [level |-> "warn", msg |-> "Client error"]
    ELSE IF s >= 300 THEN [level |-> "info", msg |-> "Redirection"]
    ELSE [level |-> "info", msg |-> "Request completed"]

\* the same switch at the end of GinLoggerWithConfig
GinLoggerSeverity(s) ==
    IF s >= 500 THEN [level |-> "error", msg |-> "Server error"]
    ELSE IF s >= 400 THEN [level |-> "warn", msg |-> "Client error"]
    ELSE IF s >= 300 THEN [level |-> "info", msg |-> "Redirection"]
    ELSE [level |-> "info", msg |-> "Request completed"]

\* IsSlow with the threshold included
IsSlowInclusive(latency) == latency >= Second

\* PerformanceLogger: latency > time.Second
IsSlow(latency) == latency > Second

\* ErrorLogger's switch without the case for gin.ErrorTypePublic
ErrorSeverityNoPublicCase(type) ==
    IF type = "bind" THEN [level |-> "warn", msg |-> "Binding error"]
    ELSE IF type = "render" THEN [level |-> "error", msg |-> "Rendering error"]
    ELSE [level |-> "error", msg |-> "Internal error"]

\* ErrorLogger's switch on err.Type
ErrorSeverity(type) ==
    IF type = "bind" THEN [level |-> "warn", msg |-> "Binding error"]
    ELSE IF type = "render" THEN [level |-> "error", msg |-> "Rendering error"]
    ELSE IF type = "public" THEN [level |-> "info", msg |-> "Public error"]
    ELSE [level |-> "error", msg |-> "Internal error"]

\* RequestIDField reading a key RequestIDMiddleware does not write
RequestIDFieldOtherKey(m) ==
    IF GetString(m, "requestId") # EmptyStr
    THEN <<Field("request_id", GetString(m, "requestId"))>> ELSE <<>>

\* the request_id / user_id fields every emitter appends when present
RequestIDField(m) ==
    IF GetString(m, "request_id") # EmptyStr
    THEN <<Field("request_id", GetString(m, "request_id"))>> ELSE <<>>

UserIDField(m) ==
    IF GetString(m, "user_id") # EmptyStr
    THEN <<Field("user_id", GetString(m, "user_id"))>> ELSE <<>>

\* LoggerFromContext without the user_id lookup
LoggerFromContextRequestOnly(m) ==
    LET fields == RequestIDField(m)
    IN  IF Len(fields) > 0 THEN With(GetLogger, fields) ELSE GetLogger

LoggerFromContext(m) ==
    LET fields == RequestIDField(m) \o UserIDField(m)
    IN  IF Len(fields) > 0 THEN With(GetLogger, fields) ELSE GetLogger

\* request bodies: a stream that yields data and then EOF (or an error)
NilBody == [nil |-> TRUE, data |-> <<>>, err |-> FALSE]

Stream(data, err) == [nil |-> FALSE, data |-> data, err |-> err]

\* io.ReadAll(c.Request.Body)
ReadAll(b) == [bytes |-> b.data, err |-> b.err]

\* the stream once it has been read to its end
Drained(b) == [nil |-> FALSE, data |-> <<>>, err |-> b.err]

\* io.NopCloser(bytes.NewBuffer(bodyBytes))
NopCloser(bytes) == [nil |-> FALSE, data |-> bytes, err |-> FALSE]

\* c.Request.Body != nil && c.Request.ContentLength <= config.MaxBodySize
WithinLimit(b, contentLength, max) == ~b.nil /\ contentLength <= max

\* BodyAfterCapture without the restore
BodyNotRestored(b) == Drained(b)

\* c.Request.Body after the capture block has run on b
BodyAfterCapture(b) ==
    IF ReadAll(b).err THEN Drained(b) ELSE NopCloser(ReadAll(b).bytes)

DefaultMaxBodySize == 1024 * 1024

\* if config.MaxBodySize == 0 { config.MaxBodySize = 1024 * 1024 }
MaxBodySize(cfg) ==
    IF cfg.MaxBodySize = 0 THEN DefaultMaxBodySize ELSE cfg.MaxBodySize

\* Skipped without the loop over SkipPathRegexps
SkippedExactOnly(cfg, path) == path \in cfg.SkipPaths

\* skipPaths[path], then each regexp of SkipPathRegexps (all of the form ^prefix.*)
Skipped(cfg, path) ==
    \/ path \in cfg.SkipPaths
    \/ \E prefix \in cfg.SkipPathRegexps : HasPrefix(path, prefix)

----------------------------------------------------------------------------
(* The chains, configurations, requests and handlers the model runs. *)

\* the recommended chain with the recovery registered too early
MisorderedChain ==
    <<"RequestIDMiddleware", "SecurityLogger", "PerformanceLogger",
      "RecoveryLogger", "StructuredLogger", "ErrorLogger">>

\* the recommended chain of the README
DocumentedChain ==
    <<"RequestIDMiddleware", "SecurityLogger", "PerformanceLogger",
      "StructuredLogger", "ErrorLogger", "RecoveryLogger">>

\* the remaining middleware, behind a recovery and without request identifiers
BasicChain == <<"RecoveryLogger", "RequestBodyLogger", "GinLogger">>

\* the body logger and the individual middleware behind the request ID
BodyChain ==
    <<"RequestIDMiddleware", "RequestBodyLogger", "GinLogger", "ErrorLogger",
      "RecoveryLogger">>

Chains == {DocumentedChain, BasicChain, BodyChain}

Middleware ==
    {"RequestIDMiddleware", "SecurityLogger", "PerformanceLogger",
     "StructuredLogger", "ErrorLogger", "RecoveryLogger", "RequestBodyLogger",
     "GinLogger"}

\* the small explicit MaxBodySize the model configures
SmallMax == 2

PathHealth == <<"/", "h", "e", "a", "l", "t", "h">>

PathMetrics == <<"/", "m", "e", "t", "r", "i", "c", "s">>

PrefixStatic == <<"/", "s", "t", "a", "t", "i", "c", "/">>

Config(logBody, max) ==
    [LogRequestBody |-> logBody, MaxBodySize |-> max,
     SkipPaths |-> {PathHealth, PathMetrics},
     SkipPathRegexps |-> {PrefixStatic},
     LogClientIP |-> TRUE, LogUserAgent |-> TRUE, LogReferer |-> FALSE,
     LogHeaders |-> <<"Authorization", "Content-Type">>,
     UTC |-> FALSE, CustomFields |-> <<>>]

Configs == {Config(TRUE, 0), Config(TRUE, SmallMax), Config(FALSE, SmallMax)}

HeaderKey(name) ==
    IF name = "Authorization" THEN "header_Authorization" ELSE "header_Content-Type"

PathRoot == <<"/">>

PathStatic == <<"/", "s", "t", "a", "t", "i", "c", "/", "a">>

TargetQuery == <<"/", "a", "?", "b">>

TargetSqlQuery == <<"/", "a", "p", "i", "/", "u", "s", "e", "r", "s", "?", "i", "d", "=", "1", "'", " ", "U", "N", "I", "O", "N", " ", "S", "E", "L", "E", "C", "T", " ", "*", " ", "F", "R", "O", "M", " ", "u", "s", "e", "r", "s", "-", "-">>

TargetUnion == <<"/", "U", "n", "i", "o", "n">>

TargetXss == <<"/", "<", "s", "c", "r", "i", "p", "t">>

TargetTraversal == <<"/", ".", ".", "/", "a">>

TargetXssTraversal == <<"/", ".", ".", "/", "<", "s", "c", "r", "i", "p", "t">>

TargetOnload == <<"/", "o", "n", "L", "o", "a", "d", "=">>

TargetDropTraversal == <<"/", ".", ".", "/", "d", "r", "o", "p">>

Targets ==
    {PathRoot, PathHealth, PathStatic, TargetQuery, TargetSqlQuery, TargetUnion,
     TargetXss, TargetTraversal, TargetXssTraversal, TargetOnload,
     TargetDropTraversal}

InboundID == <<"r", "1">>

NoHeaders == NoKeys

\* X-Request-ID absent, present and empty, present with a value
HeaderCases ==
    {NoHeaders, Set(NoHeaders, "X-Request-ID", EmptyStr),
     Set(NoHeaders, "X-Request-ID", InboundID),
     Set(Set(NoHeaders, "X-Request-ID", InboundID), "Content-Type", <<"j">>)}

Bytes(n) == [i \in 1..n |-> "x"]

Payload(b, contentLength) == [body |-> b, contentLength |-> contentLength]

OneByte == Payload(Stream(Bytes(1), FALSE), 1)

\* a body with its declared length, a chunked body (ContentLength -1), a
\* body cut short of its declared length, and no body at all
Payloads ==
    {Payload(NilBody, 0), Payload(Stream(Bytes(0), FALSE), 0), OneByte,
     Payload(Stream(Bytes(SmallMax), FALSE), SmallMax),
     Payload(Stream(Bytes(SmallMax + 1), FALSE), SmallMax + 1),
     Payload(Stream(Bytes(SmallMax + 1), FALSE), -1),
     Payload(Stream(Bytes(1), TRUE), SmallMax),
     Payload(Stream(Bytes(1), TRUE), -1)}

Request(target, header, payload) ==
    [method |-> "POST", target |-> target, header |-> header,
     contentLength |-> payload.contentLength, body |-> payload.body]

Requests ==
    {Request(t, NoHeaders, OneByte) : t \in Targets}
        \cup {Request(PathRoot, h, OneByte) : h \in HeaderCases}
        \cup {Request(TargetXss, h, OneByte) : h \in HeaderCases}
        \cup {Request(t, NoHeaders, p) :
                t \in {PathRoot, PathHealth, PathStatic}, p \in Payloads}

ClientIP == "192.0.2.1"

GetHeader(r, name) == GetString(r.header, name)

\* handler steps
Op(op, n, s, t) == [op |-> op, n |-> n, s |-> s, t |-> t]

OpRead == Op("read", 0, EmptyStr, "")

OpLogger == Op("logger", 0, EmptyStr, "")

OpSetUser(u) == Op("setuser", 0, u, "")

\* contextLogger.Info(msg) through the h-th handle the handler has got, with
\* zap.String("user_id", u) passed along unless u is empty
OpInfo(h, u, msg) == Op("info", h, u, msg)

OpSleep(d) == Op("sleep", d, EmptyStr, "")

OpStatus(code) == Op("status", code, EmptyStr, "")

OpError(type) == Op("error", 0, EmptyStr, type)

OpPanic(v) == Op("panic", 0, EmptyStr, v)

Statuses == {200, 201, 301, 399, 400, 404, 499, 500, 503}

Sleeps == {Second - 1, Second, Second + 1}

ErrorTypes == {"bind", "render", "public", "private", "any"}

UserIDs == {EmptyStr, <<"u", "7">>}

\* handlers every request is tried with
CoreHandlers ==
    { <<OpRead, OpLogger>>,
      <<OpRead, OpStatus(500)>>,
      <<OpRead, OpSleep(Second + 1), OpStatus(404)>>,
      <<OpPanic("boom")>> }

Handlers ==
    CoreHandlers
        \cup { <<OpRead, OpStatus(code)>> : code \in Statuses }
        \cup { <<OpSleep(d), OpStatus(code)>> : d \in Sleeps, code \in {200, 404, 500} }
        \cup { <<OpSleep(d), OpSleep(1)>> : d \in Sleeps }
        \cup { <<OpLogger, OpSetUser(u), OpLogger>> : u \in UserIDs }
        \cup { <<OpError(t), OpStatus(400)>> : t \in ErrorTypes }
        \cup { <<OpError(t), OpError(u)>> : t \in ErrorTypes, u \in ErrorTypes }
        \cup { <<OpStatus(200), OpPanic("boom")>>,
               <<OpSleep(Second + 1), OpPanic("late")>>,
               <<OpError("bind"), OpPanic("boom")>>,
               <<OpLogger, OpSetUser(<<"u", "7">>), OpPanic("boom")>> }
        \cup { <<OpLogger, OpInfo(1, <<"u", "7">>, "Fetching user"),
                 OpSetUser(<<"u", "7">>),
                 OpInfo(1, EmptyStr, "User data retrieved")>>,
               <<OpLogger, OpSetUser(<<"u", "7">>), OpLogger,
                 OpInfo(2, EmptyStr, "User data retrieved")>> }

\* what arrives: any request, routed to any handler
Traffic == Requests \X Handlers

\* nanoseconds the clock may advance while one identifier is generated
MaxDrift == 1

----------------------------------------------------------------------------
(* State. *)

NoPanic == [active |-> FALSE, value |-> ""]

NoRequest ==
    [method |-> "", target |-> EmptyStr, header |-> NoHeaders,
     contentLength |-> 0, body |-> NilBody]

NoLocals ==
    [skip |-> FALSE, start |-> 0, path |-> EmptyStr, raw |-> EmptyStr,
     requestBody |-> EmptyStr]

NotRead == [read |-> FALSE, bytes |-> EmptyStr, err |-> FALSE]

Init ==
    /\ chain \in Chains
    /\ config \in Configs
    /\ phase = "idle"
    /\ idx = 0
    /\ req = NoRequest
    /\ handler = <<>>
    /\ body = NilBody
    /\ ctx = NoKeys
    /\ respHeader = NoKeys
    /\ status = 200
    /\ aborted = FALSE
    /\ errors = <<>>
    /\ panicked = NoPanic
    /\ unwound = {}
    /\ log = <<>>
    /\ now = 0
    /\ perfStart = 0
    /\ slLocal = NoLocals
    /\ glLocal = NoLocals
    /\ hpc = 1
    /\ seenBody = NotRead
    /\ readers = {}
    /\ handles = <<>>
    /\ nextCalls = [m \in Middleware |-> 0]
    /\ issued = <<>>

----------------------------------------------------------------------------
(* The chain: c.Next() and the return from it. *)

Frame(name, ph) ==
    /\ phase = ph
    /\ idx \in 1..Len(chain)
    /\ chain[idx] = name

\* c.Next(): control passes to the next middleware, or to the handler
CallNext ==
    /\ idx' = idx + 1
    /\ phase' = IF idx + 1 > Len(chain) THEN "handler" ELSE "pre"
    /\ nextCalls' = [nextCalls EXCEPT ![chain[idx]] = @ + 1]

\* the running frame ends (it returns, or a panic leaves it)
Return ==
    /\ idx' = idx - 1
    /\ phase' = IF idx - 1 = 0 THEN "done" ELSE "post"

\* a request arrives and is routed
Receive ==
    /\ phase = "idle"
    /\ \E t \in Traffic :
        /\ req' = t[1]
        /\ handler' = t[2]
        /\ body' = t[1].body
    /\ phase' = "pre"
    /\ idx' = 1
    /\ UNCHANGED <<chain, config, ctx, respHeader, status, aborted, errors,
                   panicked, unwound, log, now, perfStart, slLocal, glLocal,
                   hpc, seenBody, readers, handles, nextCalls, issued>>

----------------------------------------------------------------------------
(* The middleware. *)

\* ChooseRequestID that never reuses the inbound identifier
ChooseRequestIDAlwaysNew(inbound, generated) == generated

\* requestID := c.GetHeader("X-Request-ID"); if requestID == "" { generate }
ChooseRequestID(inbound, generated) ==
    IF inbound = EmptyStr THEN generated ELSE inbound

RequestIDMiddleware ==
    /\ Frame("RequestIDMiddleware", "pre")
    /\ \E drift \in 0..MaxDrift :
        LET inbound == GetHeader(req, "X-Request-ID")
            requestID == ChooseRequestID(inbound,
                             generateRequestID(now, ClockReads(now, drift)))
        IN  /\ inbound # EmptyStr => drift = 0
            /\ ctx' = Set(ctx, "request_id", requestID)
            /\ respHeader' = Set(respHeader, "X-Request-ID", requestID)
            /\ now' = now + drift
            /\ issued' = IF inbound = EmptyStr THEN Append(issued, requestID)
                          ELSE issued
    /\ CallNext
    /\ UNCHANGED <<chain, config, req, handler, body, status, aborted, errors,
                   panicked, unwound, log, perfStart, slLocal, glLocal, hpc,
                   seenBody, readers, handles>>

SecurityLogger ==
    /\ Frame("SecurityLogger", "pre")
    /\ LET userAgent == GetHeader(req, "User-Agent")
           path == URLPath(req.target)
           reason == SecurityReason(path)
       IN  log' = IF Suspicious(path)
                  THEN Emit(log, "SecurityLogger", GetLogger, "warn",
                            "Suspicious request detected",
                            <<Field("method", req.method), Field("path", path),
                              Field("ip", ClientIP),
                              Field("user_agent", userAgent),
                              Field("reason", reason)>> \o RequestIDField(ctx))
                  ELSE log
    /\ CallNext
    /\ UNCHANGED <<chain, config, req, handler, body, ctx, respHeader, status,
                   aborted, errors, panicked, unwound, now, perfStart, slLocal,
                   glLocal, hpc, seenBody, readers, handles, issued>>

PerformanceLoggerBefore ==
    /\ Frame("PerformanceLogger", "pre")
    /\ perfStart' = now
    /\ CallNext
    /\ UNCHANGED <<chain, config, req, handler, body, ctx, respHeader, status,
                   aborted, errors, panicked, unwound, log, now, slLocal,
                   glLocal, hpc, seenBody, readers, handles, issued>>

PerformanceLoggerAfter ==
    /\ Frame("PerformanceLogger", "post")
    /\ IF panicked.active
       THEN /\ unwound' = unwound \cup {"PerformanceLogger"}
            /\ log' = log
       ELSE /\ unwound' = unwound
            /\ LET latency == now - perfStart
               IN  log' = IF IsSlow(latency)
                          THEN Emit(log, "PerformanceLogger", GetLogger, "warn",
                                    "Slow request detected",
                                    <<Field("method", req.method),
                                      Field("path", URLPath(req.target)),
                                      Field("latency", latency),
                                      Field("status", status)>>
                                        \o RequestIDField(ctx))
                          ELSE log
    /\ Return
    /\ UNCHANGED <<chain, config, req, handler, body, ctx, respHeader, status,
                   aborted, errors, panicked, now, perfStart, slLocal, glLocal,
                   hpc, seenBody, readers, handles, nextCalls, issued>>

StructuredLoggerBefore ==
    /\ Frame("StructuredLogger", "pre")
    /\ LET path == URLPath(req.target)
           capture == /\ config.LogRequestBody
                      /\ WithinLimit(body, req.contentLength, MaxBodySize(config))
       IN  IF Skipped(config, path)
           THEN /\ slLocal' = [NoLocals EXCEPT !.skip = TRUE]
                /\ UNCHANGED <<body, readers>>
           ELSE /\ slLocal' =
                     [skip |-> FALSE, start |-> now, path |-> path,
                      raw |-> URLRawQuery(req.target),
                      requestBody |-> IF capture /\ ~ReadAll(body).err
                                      THEN ReadAll(body).bytes ELSE EmptyStr]
                /\ body' = IF capture THEN BodyAfterCapture(body) ELSE body
                /\ readers' = IF capture THEN readers \cup {"StructuredLogger"}
                              ELSE readers
    /\ CallNext
    /\ UNCHANGED <<chain, config, req, handler, ctx, respHeader, status,
                   aborted, errors, panicked, unwound, log, now, perfStart,
                   glLocal, hpc, seenBody, handles, issued>>

\* the fields StructuredLogger assembles once c.Next() has returned
StructuredLoggerFields ==
    LET latency == now - slLocal.start
        headers == SelectSeq(config.LogHeaders,
                             LAMBDA h : GetHeader(req, h) # EmptyStr)
    IN  <<Field("method", req.method), Field("path", slLocal.path),
          Field("status", status), Field("latency", latency),
          Field("body_size", -1), Field("timestamp", slLocal.start)>>
        \o (IF slLocal.raw # EmptyStr THEN <<Field("query", slLocal.raw)>> ELSE <<>>)
        \o (IF config.LogClientIP THEN <<Field("ip", ClientIP)>> ELSE <<>>)
        \o (IF config.LogUserAgent
            THEN <<Field("user_agent", GetHeader(req, "User-Agent"))>> ELSE <<>>)
        \o (IF config.LogReferer /\ GetHeader(req, "Referer") # EmptyStr
            THEN <<Field("referer", GetHeader(req, "Referer"))>> ELSE <<>>)
        \o [i \in 1..Len(headers) |->
                Field(HeaderKey(headers[i]), GetHeader(req, headers[i]))]
        \o (IF slLocal.requestBody # EmptyStr
            THEN <<Field("request_body", slLocal.requestBody)>> ELSE <<>>)
        \o RequestIDField(ctx)
        \o UserIDField(ctx)
        \o config.CustomFields

StructuredLoggerAfter ==
    /\ Frame("StructuredLogger", "post")
    /\ IF panicked.active
       THEN /\ unwound' = unwound \cup {"StructuredLogger"}
            /\ log' = log
       ELSE /\ unwound' = unwound
            /\ log' = IF slLocal.skip THEN log
                      ELSE Emit(log, "StructuredLogger", GetLogger,
                                StructuredLoggerSeverity(status).level,
                                StructuredLoggerSeverity(status).msg,
                                StructuredLoggerFields)
    /\ Return
    /\ UNCHANGED <<chain, config, req, handler, body, ctx, respHeader, status,
                   aborted, errors, panicked, now, perfStart, slLocal, glLocal,
                   hpc, seenBody, readers, handles, nextCalls, issued>>

GinLoggerBefore ==
    /\ Frame("GinLogger", "pre")
    /\ LET path == URLPath(req.target)
       IN  glLocal' = IF path \in config.SkipPaths
                      THEN [NoLocals EXCEPT !.skip = TRUE]
                      ELSE [skip |-> FALSE, start |-> now, path |-> path,
                            raw |-> URLRawQuery(req.target),
                            requestBody |-> EmptyStr]
    /\ CallNext
    /\ UNCHANGED <<chain, config, req, handler, body, ctx, respHeader, status,
                   aborted, errors, panicked, unwound, log, now, perfStart,
                   slLocal, hpc, seenBody, readers, handles, issued>>

\* the fields GinLoggerWithConfig assembles once c.Next() has returned
GinLoggerFields ==
    <<Field("method", req.method), Field("path", glLocal.path),
      Field("ip", ClientIP),
      Field("user_agent", GetHeader(req, "User-Agent")),
      Field("status", status), Field("latency", now - glLocal.start),
      Field("body_size", -1), Field("timestamp", glLocal.start)>>
    \o (IF glLocal.raw # EmptyStr THEN <<Field("query", glLocal.raw)>> ELSE <<>>)
    \o RequestIDField(ctx)
    \o UserIDField(ctx)

GinLoggerAfter ==
    /\ Frame("GinLogger", "post")
    /\ IF panicked.active
       THEN /\ unwound' = unwound \cup {"GinLogger"}
            /\ log' = log
       ELSE /\ unwound' = unwound
            /\ log' = IF glLocal.skip THEN log
                      ELSE Emit(log, "GinLogger", GetLogger,
                                GinLoggerSeverity(status).level,
                                GinLoggerSeverity(status).msg, GinLoggerFields)
    /\ Return
    /\ UNCHANGED <<chain, config, req, handler, body, ctx, respHeader, status,
                   aborted, errors, panicked, now, perfStart, slLocal, glLocal,
                   hpc, seenBody, readers, handles, nextCalls, issued>>

ErrorLoggerBefore ==
    /\ Frame("ErrorLogger", "pre")
    /\ CallNext
    /\ UNCHANGED <<chain, config, req, handler, body, ctx, respHeader, status,
                   aborted, errors, panicked, unwound, log, now, perfStart,
                   slLocal, glLocal, hpc, seenBody, readers, handles, issued>>

\* the event ErrorLogger emits for one entry of c.Errors
ErrorEvent(e) ==
    Emit(<<>>, "ErrorLogger", GetLogger, ErrorSeverity(e.type).level,
         ErrorSeverity(e.type).msg,
         <<Field("method", req.method), Field("path", URLPath(req.target)),
           Field("ip", ClientIP), Field("error", e.err)>>
            \o RequestIDField(ctx))[1]

ErrorLoggerAfter ==
    /\ Frame("ErrorLogger", "post")
    /\ IF panicked.active
       THEN /\ unwound' = unwound \cup {"ErrorLogger"}
            /\ log' = log
       ELSE /\ unwound' = unwound
            /\ log' = log \o [i \in 1..Len(errors) |-> ErrorEvent(errors[i])]
    /\ Return
    /\ UNCHANGED <<chain, config, req, handler, body, ctx, respHeader, status,
                   aborted, errors, panicked, now, perfStart, slLocal, glLocal,
                   hpc, seenBody, readers, handles, nextCalls, issued>>

\* c.AbortWithStatus(500)
AbortStatus == 500

\* gin.CustomRecovery: defer the recovery, then c.Next()
RecoveryLoggerBefore ==
    /\ Frame("RecoveryLogger", "pre")
    /\ CallNext
    /\ UNCHANGED <<chain, config, req, handler, body, ctx, respHeader, status,
                   aborted, errors, panicked, unwound, log, now, perfStart,
                   slLocal, glLocal, hpc, seenBody, readers, handles, issued>>

\* RecoveryLoggerAfter without c.AbortWithStatus(500)
RecoveryLoggerAfterLogOnly ==
    /\ Frame("RecoveryLogger", "post")
    /\ IF panicked.active
       THEN /\ log' = Emit(log, "RecoveryLogger", GetLogger, "error",
                           "Panic recovered",
                           <<Field("method", req.method),
                             Field("path", URLPath(req.target)),
                             Field("ip", ClientIP),
                             Field("panic", panicked.value)>>
                                \o RequestIDField(ctx))
            /\ panicked' = NoPanic
       ELSE UNCHANGED <<log, panicked>>
    /\ Return
    /\ UNCHANGED <<chain, config, req, handler, body, ctx, respHeader, status,
                   aborted, errors, unwound, now, perfStart, slLocal, glLocal,
                   hpc, seenBody, readers, handles, nextCalls, issued>>

\* the deferred function: on a panic, the handler given to CustomRecovery
RecoveryLoggerAfter ==
    /\ Frame("RecoveryLogger", "post")
    /\ IF panicked.active
       THEN /\ log' = Emit(log, "RecoveryLogger", GetLogger, "error",
                           "Panic recovered",
                           <<Field("method", req.method),
                             Field("path", URLPath(req.target)),
                             Field("ip", ClientIP),
                             Field("panic", panicked.value)>>
                                \o RequestIDField(ctx))
            /\ status' = AbortStatus
            /\ aborted' = TRUE
            /\ panicked' = NoPanic
       ELSE UNCHANGED <<log, status, aborted, panicked>>
    /\ Return
    /\ UNCHANGED <<chain, config, req, handler, body, ctx, respHeader, errors,
                   unwound, now, perfStart, slLocal, glLocal, hpc, seenBody,
                   readers, handles, nextCalls, issued>>

\* a body logger that fails the request when the body cannot be read
RequestBodyLoggerFailsRequest ==
    /\ Frame("RequestBodyLogger", "pre")
    /\ LET path == URLPath(req.target)
           capture == /\ path \notin config.SkipPaths
                      /\ WithinLimit(body, req.contentLength, MaxBodySize(config))
           failed == capture /\ ReadAll(body).err
       IN  /\ body' = IF capture THEN BodyAfterCapture(body) ELSE body
           /\ readers' = IF capture THEN readers \cup {"RequestBodyLogger"}
                         ELSE readers
           /\ log' = IF capture /\ ~failed
                     THEN Emit(log, "RequestBodyLogger", GetLogger, "debug",
                               "Request body",
                               <<Field("method", req.method), Field("path", path),
                                 Field("body", ReadAll(body).bytes)>>
                                    \o RequestIDField(ctx))
                     ELSE log
           /\ IF failed
              THEN /\ aborted' = TRUE
                   /\ status' = 400
                   /\ Return
                   /\ UNCHANGED nextCalls
              ELSE /\ CallNext
                   /\ UNCHANGED <<aborted, status>>
    /\ UNCHANGED <<chain, config, req, handler, ctx, respHeader, errors,
                   panicked, unwound, now, perfStart, slLocal, glLocal, hpc,
                   seenBody, handles, issued>>

RequestBodyLogger ==
    /\ Frame("RequestBodyLogger", "pre")
    /\ LET path == URLPath(req.target)
           capture == /\ path \notin config.SkipPaths
                      /\ WithinLimit(body, req.contentLength, MaxBodySize(config))
       IN  /\ body' = IF capture THEN BodyAfterCapture(body) ELSE body
           /\ readers' = IF capture THEN readers \cup {"RequestBodyLogger"}
                         ELSE readers
           /\ log' = IF capture /\ ~ReadAll(body).err
                     THEN Emit(log, "RequestBodyLogger", GetLogger, "debug",
                               "Request body",
                               <<Field("method", req.method), Field("path", path),
                                 Field("body", ReadAll(body).bytes)>>
                                    \o RequestIDField(ctx))
                     ELSE log
    /\ CallNext
    /\ UNCHANGED <<chain, config, req, handler, ctx, respHeader, status,
                   aborted, errors, panicked, unwound, now, perfStart, slLocal,
                   glLocal, hpc, seenBody, handles, issued>>

\* the middleware with nothing after c.Next()
ReturnOnly ==
    /\ phase = "post"
    /\ idx \in 1..Len(chain)
    /\ chain[idx] \in {"RequestIDMiddleware", "SecurityLogger", "RequestBodyLogger"}
    /\ unwound' = IF panicked.active THEN unwound \cup {chain[idx]} ELSE unwound
    /\ Return
    /\ UNCHANGED <<chain, config, req, handler, body, ctx, respHeader, status,
                   aborted, errors, panicked, log, now, perfStart, slLocal,
                   glLocal, hpc, seenBody, readers, handles,
                   nextCalls, issued>>

----------------------------------------------------------------------------
(* The application handler. *)

HandlerStep(op) ==
    /\ phase = "handler"
    /\ hpc <= Len(handler)
    /\ handler[hpc].op = op
    /\ hpc' = hpc + 1

\* the handler reads c.Request.Body to its end
HandlerRead ==
    /\ HandlerStep("read")
    /\ seenBody' = IF body.nil THEN [NotRead EXCEPT !.read = TRUE]
                   ELSE [read |-> TRUE, bytes |-> ReadAll(body).bytes,
                         err |-> ReadAll(body).err]
    /\ body' = IF body.nil THEN body ELSE Drained(body)
    /\ UNCHANGED <<chain, config, phase, idx, req, handler, ctx, respHeader,
                   status, aborted, errors, panicked, unwound, log, now,
                   perfStart, slLocal, glLocal, readers, handles,
                   nextCalls, issued>>

\* logger := LoggerFromContext(c)
HandlerLogger ==
    /\ HandlerStep("logger")
    /\ handles' = Append(handles, [at |-> ctx, logger |-> LoggerFromContext(ctx)])
    /\ UNCHANGED <<chain, config, phase, idx, req, handler, body, ctx,
                   respHeader, status, aborted, errors, panicked, unwound, log,
                   now, perfStart, slLocal, glLocal, seenBody, readers,
                   nextCalls, issued>>

\* contextLogger.Info(msg, fields...) through a handle got earlier
HandlerInfo ==
    /\ HandlerStep("info")
    /\ handler[hpc].n \in 1..Len(handles)
    /\ log' = Emit(log, "handler", handles[handler[hpc].n].logger, "info",
                   handler[hpc].t,
                   IF handler[hpc].s = EmptyStr THEN <<>>
                   ELSE <<Field("user_id", handler[hpc].s)>>)
    /\ UNCHANGED <<chain, config, phase, idx, req, handler, body, ctx,
                   respHeader, status, aborted, errors, panicked, unwound, now,
                   perfStart, slLocal, glLocal, seenBody, readers, handles,
                   nextCalls, issued>>

\* c.Set("user_id", userID)
HandlerSetUser ==
    /\ HandlerStep("setuser")
    /\ ctx' = Set(ctx, "user_id", handler[hpc].s)
    /\ UNCHANGED <<chain, config, phase, idx, req, handler, body, respHeader,
                   status, aborted, errors, panicked, unwound, log, now,
                   perfStart, slLocal, glLocal, seenBody, readers, handles,
                   nextCalls, issued>>

\* time.Sleep(d)
HandlerSleep ==
    /\ HandlerStep("sleep")
    /\ now' = now + handler[hpc].n
    /\ UNCHANGED <<chain, config, phase, idx, req, handler, body, ctx,
                   respHeader, status, aborted, errors, panicked, unwound, log,
                   perfStart, slLocal, glLocal, seenBody, readers, handles,
                   nextCalls, issued>>

\* c.JSON(code, ...)
HandlerStatus ==
    /\ HandlerStep("status")
    /\ status' = handler[hpc].n
    /\ UNCHANGED <<chain, config, phase, idx, req, handler, body, ctx,
                   respHeader, aborted, errors, panicked, unwound, log, now,
                   perfStart, slLocal, glLocal, seenBody, readers, handles,
                   nextCalls, issued>>

\* c.Error(err) with the given type
HandlerError ==
    /\ HandlerStep("error")
    /\ errors' = Append(errors, [type |-> handler[hpc].t, err |-> Len(errors) + 1])
    /\ UNCHANGED <<chain, config, phase, idx, req, handler, body, ctx,
                   respHeader, status, aborted, panicked, unwound, log, now,
                   perfStart, slLocal, glLocal, seenBody, readers, handles,
                   nextCalls, issued>>

\* panic(v)
HandlerPanic ==
    /\ HandlerStep("panic")
    /\ panicked' = [active |-> TRUE, value |-> handler[hpc].t]
    /\ Return
    /\ UNCHANGED <<chain, config, req, handler, body, ctx, respHeader, status,
                   aborted, errors, unwound, log, now, perfStart, slLocal,
                   glLocal, seenBody, readers, handles, nextCalls, issued>>

HandlerReturn ==
    /\ phase = "handler"
    /\ hpc > Len(handler)
    /\ Return
    /\ UNCHANGED <<chain, config, req, handler, body, ctx, respHeader, status,
                   aborted, errors, panicked, unwound, log, now, perfStart,
                   slLocal, glLocal, hpc, seenBody, readers, handles,
                   nextCalls, issued>>

----------------------------------------------------------------------------

Next ==
    \/ Receive
    \/ RequestIDMiddleware
    \/ SecurityLogger
    \/ PerformanceLoggerBefore
    \/ PerformanceLoggerAfter
    \/ StructuredLoggerBefore
    \/ StructuredLoggerAfter
    \/ GinLoggerBefore
    \/ GinLoggerAfter
    \/ ErrorLoggerBefore
    \/ ErrorLoggerAfter
    \/ RecoveryLoggerBefore
    \/ RecoveryLoggerAfter
    \/ RequestBodyLogger
    \/ ReturnOnly
    \/ HandlerRead
    \/ HandlerLogger
    \/ HandlerInfo
    \/ HandlerSetUser
    \/ HandlerSleep
    \/ HandlerStatus
    \/ HandlerError
    \/ HandlerPanic
    \/ HandlerReturn

Spec == Init /\ [][Next]_vars

-----------------------------------------------------------------------------
(* One process serving several requests that carry no X-Request-ID header:
   only RequestIDMiddleware's effects are followed, the requests share the
   process clock, and the identifiers handed out are kept in issued. *)

\* requests without an inbound identifier served by the process
MaxRequests == 3

\* the clock is followed for this many rounds of the charset into a second
MaxWindow == 2

\* the clock advances between two requests: by one round of the charset, or
\* by a second
ClockSteps == {Len(charset), Second}

Tick ==
    /\ \E d \in ClockSteps :
        /\ now + d < 2 * Second
        /\ (now + d) % Second <= MaxWindow * Len(charset)
        /\ now' = now + d
    /\ UNCHANGED <<chain, config, phase, idx, req, handler, body, ctx,
                   respHeader, status, aborted, errors, panicked, unwound, log,
                   perfStart, slLocal, glLocal, hpc, seenBody, readers, handles,
                   nextCalls, issued>>

\* RequestIDMiddleware on a fresh context, for a request without the header
ServeWithoutHeader ==
    /\ Len(issued) < MaxRequests
    /\ \E drift \in 0..MaxDrift :
        LET inbound == GetHeader(Request(PathRoot, NoHeaders, OneByte),
                                 "X-Request-ID")
            requestID == ChooseRequestID(inbound,
                             generateRequestID(now, ClockReads(now, drift)))
        IN  /\ ctx' = Set(NoKeys, "request_id", requestID)
            /\ respHeader' = Set(NoKeys, "X-Request-ID", requestID)
            /\ now' = now + drift
            /\ issued' = Append(issued, requestID)
    /\ UNCHANGED <<chain, config, phase, idx, req, handler, body, status,
                   aborted, errors, panicked, unwound, log, perfStart, slLocal,
                   glLocal, hpc, seenBody, readers, handles, nextCalls>>

NextProcess ==
    \/ Tick
    \/ ServeWithoutHeader

SpecProcess == Init /\ [][NextProcess]_vars

----------------------------------------------------------------------------
(* Properties. *)

EventsBy(name) == SelectSeq(log, LAMBDA e : e.by = name)

Position(name) == CHOOSE i \in 1..Len(chain) : chain[i] = name

InChain(name) == \E i \in 1..Len(chain) : chain[i] = name

\* the frame of name has finished (returned, or been left by a panic)
Finished(name) ==
    \/ phase = "done"
    \/ phase = "post" /\ idx < Position(name)

\* the request path is on the exclusion list or matches an exclusion pattern
Excluded ==
    \/ URLPath(req.target) \in config.SkipPaths
    \/ \E p \in config.SkipPathRegexps : HasPrefix(URLPath(req.target), p)

\* C1: every completion event of StructuredLogger and of GinLoggerWithConfig
\* carries the final response status s and has level error iff s >= 500,
\* warn iff 400 <= s < 500 and info otherwise; neither emits more than one.
C1_SeverityFollowsStatus ==
    /\ \A i \in 1..Len(log) :
        log[i].by \in {"StructuredLogger", "GinLogger"} =>
            LET s == FieldValue(log[i].fields, "status")
            IN  /\ s = status
                /\ log[i].level \in {"error", "warn", "info"}
                /\ log[i].level = "error" <=> s >= 500
                /\ log[i].level = "warn" <=> (s >= 400 /\ s < 500)
                /\ log[i].level = "info" <=> s < 400
    /\ Len(EventsBy("StructuredLogger")) <= 1
    /\ Len(EventsBy("GinLogger")) <= 1

C1_Witness ==
    /\ phase = "done"
    /\ status = 499
    /\ Len(EventsBy("StructuredLogger")) = 1
    /\ EventsBy("StructuredLogger")[1].level = "warn"

\* C2: for a request whose path is excluded (exact or by pattern),
\* StructuredLogger emits nothing and never reads the request body.
C2_ExcludedPathSilent ==
    (phase # "idle" /\ Excluded) =>
        /\ Len(EventsBy("StructuredLogger")) = 0
        /\ "StructuredLogger" \notin readers

C2_Witness ==
    /\ phase = "done"
    /\ chain = DocumentedChain
    /\ HasPrefix(URLPath(req.target), PrefixStatic)
    /\ config.LogRequestBody
    /\ Len(req.body.data) > 0
    /\ seenBody.read

\* the frame of name has been entered and has called c.Next()
Entered(name) ==
    /\ InChain(name)
    /\ \/ phase \in {"handler", "post", "done"}
       \/ phase = "pre" /\ idx > Position(name)

HeaderPresent == "X-Request-ID" \in DOMAIN req.header

\* an identifier of the shape generateRequestID produces
Generated(v) ==
    /\ v # EmptyStr
    /\ Len(v) = 14 + 1 + RandomLength
    /\ v[15] = "-"

\* C3 as claimed: the X-Request-ID response header equals the inbound header
\* value whenever that header is present, is a generated non-empty value when
\* it is absent, and the context holds the same value under request_id.
C3_Original ==
    Entered("RequestIDMiddleware") =>
        /\ "X-Request-ID" \in DOMAIN respHeader
        /\ "request_id" \in DOMAIN ctx
        /\ ctx["request_id"] = respHeader["X-Request-ID"]
        /\ HeaderPresent => respHeader["X-Request-ID"] = req.header["X-Request-ID"]
        /\ ~HeaderPresent => respHeader["X-Request-ID"] # EmptyStr

\* C3: the X-Request-ID response header equals the inbound header value when
\* that header carries a non-empty value, is a newly generated non-empty value
\* when the header is absent or empty, and the context holds the same value
\* under request_id.
C3_RequestIDEchoed ==
    Entered("RequestIDMiddleware") =>
        /\ "X-Request-ID" \in DOMAIN respHeader
        /\ "request_id" \in DOMAIN ctx
        /\ ctx["request_id"] = respHeader["X-Request-ID"]
        /\ IF HeaderPresent /\ req.header["X-Request-ID"] # EmptyStr
           THEN respHeader["X-Request-ID"] = req.header["X-Request-ID"]
           ELSE Generated(respHeader["X-Request-ID"])

C3_Witness ==
    /\ phase = "done"
    /\ Entered("RequestIDMiddleware")
    /\ HeaderPresent
    /\ req.header["X-Request-ID"] = InboundID
    /\ respHeader["X-Request-ID"] = InboundID

\* body capture is switched on for this request
CaptureEnabled ==
    \/ InChain("StructuredLogger") /\ config.LogRequestBody /\ ~Excluded
    \/ InChain("RequestBodyLogger") /\ URLPath(req.target) \notin config.SkipPaths

\* C4: when a readable body no longer than MaxBodySize has been captured by
\* StructuredLogger or RequestBodyLogger, the handler reading the body
\* afterwards gets exactly the bytes of the original body.
C4_BodyRestored ==
    ( /\ seenBody.read
      /\ CaptureEnabled
      /\ ~req.body.nil
      /\ ~req.body.err
      /\ Len(req.body.data) <= MaxBodySize(config) ) =>
        /\ readers # {}
        /\ seenBody.bytes = req.body.data
        /\ ~seenBody.err

C4_Witness ==
    /\ phase = "done"
    /\ seenBody.read
    /\ readers = {"StructuredLogger"}
    /\ config.MaxBodySize = SmallMax
    /\ Len(req.body.data) = SmallMax
    /\ seenBody.bytes = req.body.data

\* C5 as claimed: when the body is longer than the configured maximum, no
\* StructuredLogger event has a request_body field and RequestBodyLogger emits
\* nothing, whatever content length is declared (-1 included).
C5_OversizeBodyNotLogged ==
    Len(req.body.data) > MaxBodySize(config) =>
        /\ \A i \in 1..Len(log) :
            log[i].by = "StructuredLogger" => ~HasField(log[i].fields, "request_body")
        /\ Len(EventsBy("RequestBodyLogger")) = 0

\* C6 as claimed: SecurityLogger reports "SQL injection attempt" for the
\* request /api/users?id=1' UNION SELECT * FROM users--, "XSS attempt" for
\* every path containing <script, "Path traversal attempt" for every path
\* containing ../, and nothing for a path no signature matches.
C6_SignatureReports ==
    Entered("SecurityLogger") =>
        LET path == URLPath(req.target)
            ev == EventsBy("SecurityLogger")
            Reported(r) == Len(ev) = 1 /\ FieldValue(ev[1].fields, "reason") = r
        IN  /\ req.target = TargetSqlQuery => Reported("SQL injection attempt")
            /\ Contains(path, <<"<", "s", "c", "r", "i", "p", "t">>)
                    => Reported("XSS attempt")
            /\ Contains(path, <<".", ".", "/">>)
                    => Reported("Path traversal attempt")
            /\ (~MatchSQL(path) /\ ~MatchXSS(path) /\ ~MatchTraversal(path))
                    => Len(ev) = 0

\* the handler has panicked
PanicRaised ==
    /\ phase \in {"post", "done"}
    /\ hpc > 1
    /\ handler[hpc - 1].op = "panic"

\* C7: a handler panic reaching RecoveryLogger yields exactly one error event
\* with the panic value, method, path and ip, leaves the status at 500, is
\* not seen by any middleware registered before RecoveryLogger, and is over
\* once the recovery has run; without a panic RecoveryLogger emits nothing.
C7_PanicRecovered ==
    LET ev == EventsBy("RecoveryLogger")
    IN  /\ ~PanicRaised => Len(ev) = 0
        /\ (PanicRaised /\ Finished("RecoveryLogger")) =>
            /\ Len(ev) = 1
            /\ ev[1].level = "error"
            /\ \A k \in {"method", "path", "ip", "panic"} : HasField(ev[1].fields, k)
            /\ FieldValue(ev[1].fields, "panic") = handler[hpc - 1].t
            /\ status = 500
            /\ ~panicked.active
        /\ \A i \in 1..Len(chain) :
            i < Position("RecoveryLogger") => chain[i] \notin unwound

C7_Witness ==
    /\ phase = "done"
    /\ PanicRaised
    /\ chain = BasicChain
    /\ "GinLogger" \in unwound
    /\ status = 500
    /\ Len(EventsBy("RecoveryLogger")) = 1

\* the time the handler has slept so far
RECURSIVE SleptUpTo(_)
SleptUpTo(k) ==
    IF k = 0 THEN 0
    ELSE SleptUpTo(k - 1) + (IF handler[k].op = "sleep" THEN handler[k].n ELSE 0)

\* C8: once the chain below PerformanceLogger has returned, there is one
\* warn event of PerformanceLogger if the time spent below it is more than
\* one second and none otherwise, whatever the status; none before that.
C8_SlowRequestWarned ==
    InChain("PerformanceLogger") =>
        LET ev == EventsBy("PerformanceLogger")
        IN  IF Finished("PerformanceLogger")
            THEN /\ Len(ev) = (IF SleptUpTo(hpc - 1) > Second THEN 1 ELSE 0)
                 /\ \A i \in 1..Len(ev) :
                        /\ ev[i].level = "warn"
                        /\ FieldValue(ev[i].fields, "latency") = SleptUpTo(hpc - 1)
            ELSE Len(ev) = 0

C8_Witness ==
    /\ phase = "done"
    /\ status = 404
    /\ SleptUpTo(hpc - 1) = Second + 1
    /\ Len(EventsBy("PerformanceLogger")) = 1

\* C9: in the documented chain a request whose path is not excluded has no
\* StructuredLogger event while the chain below StructuredLogger is running
\* and exactly one once it has returned, however the handler ended.
C9_OneCompletionEvent ==
    (chain = DocumentedChain /\ phase # "idle" /\ ~Excluded) =>
        Len(EventsBy("StructuredLogger")) =
            (IF Finished("StructuredLogger") THEN 1 ELSE 0)

C9_Witness ==
    /\ phase = "done"
    /\ chain = DocumentedChain
    /\ PanicRaised
    /\ Len(errors) > 0
    /\ Len(EventsBy("StructuredLogger")) = 1
    /\ Len(EventsBy("RecoveryLogger")) = 1

ValueAt(m, key) == IF key \in DOMAIN m THEN m[key] ELSE EmptyStr

\* C10: each logger returned by LoggerFromContext is the global logger when
\* the context then held no non-empty request_id or user_id, and otherwise
\* binds exactly the fields present, request_id before user_id; a logger got
\* after user_id was set is the earlier one plus the user_id field.
C10_LoggerReflectsContext ==
    /\ \A i \in 1..Len(handles) :
        LET rid == ValueAt(handles[i].at, "request_id")
            uid == ValueAt(handles[i].at, "user_id")
            lg == handles[i].logger
        IN  /\ (rid = EmptyStr /\ uid = EmptyStr) =>
                lg = [scoped |-> FALSE, bound |-> <<>>]
            /\ (rid # EmptyStr /\ uid = EmptyStr) =>
                lg = [scoped |-> TRUE, bound |-> <<[k |-> "request_id", v |-> rid]>>]
            /\ (rid = EmptyStr /\ uid # EmptyStr) =>
                lg = [scoped |-> TRUE, bound |-> <<[k |-> "user_id", v |-> uid]>>]
            /\ (rid # EmptyStr /\ uid # EmptyStr) =>
                lg = [scoped |-> TRUE,
                      bound |-> <<[k |-> "request_id", v |-> rid],
                                  [k |-> "user_id", v |-> uid]>>]
    /\ \A i \in 1..Len(handles) : \A j \in 1..Len(handles) :
        ( /\ i < j
          /\ ValueAt(handles[i].at, "user_id") = EmptyStr
          /\ ValueAt(handles[j].at, "user_id") # EmptyStr ) =>
            handles[j].logger.bound =
                handles[i].logger.bound
                    \o <<[k |-> "user_id", v |-> ValueAt(handles[j].at, "user_id")]>>

C10_Witness ==
    /\ Len(handles) = 2
    /\ chain = DocumentedChain
    /\ ~HasField(handles[1].logger.bound, "user_id")
    /\ HasField(handles[2].logger.bound, "user_id")
    /\ HasField(handles[2].logger.bound, "request_id")

\* the status the handler has written so far
RECURSIVE StatusUpTo(_)
StatusUpTo(k) ==
    IF k = 0 THEN 200
    ELSE IF handler[k].op = "status" THEN handler[k].n ELSE StatusUpTo(k - 1)

Observers == Middleware \ {"RecoveryLogger"}

\* C11: every middleware other than RecoveryLogger has called c.Next() exactly
\* once as soon as the request has passed it and never before, whatever path
\* it took (excluded path, suspicious path, oversize or unreadable body); the
\* request is aborted only by a recovered panic, and the status is what the
\* handler wrote unless RecoveryLogger has replaced it.
C11_ObserversForwardOnce ==
    /\ \A name \in Observers :
        nextCalls[name] = IF Entered(name) THEN 1 ELSE 0
    /\ aborted =>
        /\ PanicRaised
        /\ InChain("RecoveryLogger")
        /\ Len(EventsBy("RecoveryLogger")) = 1
    /\ status = IF aborted THEN AbortStatus ELSE StatusUpTo(hpc - 1)

C11_Witness ==
    /\ phase = "done"
    /\ chain = BasicChain
    /\ req.body.err
    /\ "RequestBodyLogger" \in readers
    /\ Len(EventsBy("RequestBodyLogger")) = 0
    /\ nextCalls["RequestBodyLogger"] = 1
    /\ nextCalls["GinLogger"] = 1
    /\ ~aborted
    /\ status = 201

\* C12: once the chain below ErrorLogger has returned, ErrorLogger has emitted
\* one event per attached error, in the order of attachment, at level warn
\* for a binding error, error for a rendering error, info for a public error
\* and error for any other type; none when no error is attached, none before
\* the chain has returned, and no panic leaves ErrorLogger.
C12_ErrorsLoggedByType ==
    InChain("ErrorLogger") =>
        LET ev == EventsBy("ErrorLogger")
        IN  IF Finished("ErrorLogger")
            THEN /\ Len(ev) = Len(errors)
                 /\ \A i \in 1..Len(errors) :
                      /\ FieldValue(ev[i].fields, "error") = errors[i].err
                      /\ errors[i].err = i
                      /\ ev[i].level =
                            CASE errors[i].type = "bind" -> "warn"
                              [] errors[i].type = "render" -> "error"
                              [] errors[i].type = "public" -> "info"
                              [] OTHER -> "error"
                 /\ ~panicked.active
                 /\ "ErrorLogger" \notin unwound
            ELSE Len(ev) = 0

C12_Witness ==
    /\ InChain("ErrorLogger")
    /\ phase = "done"
    /\ Len(errors) = 2
    /\ errors[1].type = "bind"
    /\ errors[2].type = "public"
    /\ Len(EventsBy("ErrorLogger")) = 2
    /\ EventsBy("ErrorLogger")[1].level = "warn"
    /\ EventsBy("ErrorLogger")[2].level = "info"

\* C13: the identifiers generated within one process for requests without an
\* inbound X-Request-ID header are pairwise different.
C13_GeneratedIDsDistinct ==
    \A i \in 1..Len(issued) : \A j \in 1..Len(issued) :
        i # j => issued[i] # issued[j]

\* C14: an event the handler emits while the context holds a user_id, through
\* a handle it got from LoggerFromContext before user_id was set, carries
\* that user_id.
C14_HandleFollowsContext ==
    ( /\ phase = "handler"
      /\ hpc > 1
      /\ handler[hpc - 1].op = "info"
      /\ ValueAt(ctx, "user_id") # EmptyStr
      /\ ValueAt(handles[handler[hpc - 1].n].at, "user_id") = EmptyStr ) =>
        /\ HasField(log[Len(log)].fields, "user_id")
        /\ FieldValue(log[Len(log)].fields, "user_id") = ValueAt(ctx, "user_id")

\* C15: SecurityLogger emits at most one event per request; once it has run
\* there is exactly one warn event if the URL path matches any signature and
\* none otherwise, and its reason is path traversal if that signature
\* matches, else XSS if that one matches, else SQL injection.
C15_LastMatchReported ==
    InChain("SecurityLogger") =>
        LET ev == EventsBy("SecurityLogger")
            path == URLPath(req.target)
        IN  IF Entered("SecurityLogger")
            THEN /\ Len(ev) =
                      IF MatchSQL(path) \/ MatchXSS(path) \/ MatchTraversal(path)
                      THEN 1 ELSE 0
                 /\ \A i \in 1..Len(ev) :
                      /\ ev[i].level = "warn"
                      /\ FieldValue(ev[i].fields, "path") = path
                      /\ FieldValue(ev[i].fields, "reason") =
                            CASE MatchTraversal(path) -> "Path traversal attempt"
                              [] ~MatchTraversal(path) /\ MatchXSS(path) ->
                                    "XSS attempt"
                              [] OTHER -> "SQL injection attempt"
            ELSE Len(ev) = 0

C15_Witness ==
    /\ phase = "done"
    /\ InChain("SecurityLogger")
    /\ MatchSQL(URLPath(req.target))
    /\ MatchXSS(URLPath(req.target))
    /\ MatchTraversal(URLPath(req.target))
    /\ Len(EventsBy("SecurityLogger")) = 1
    /\ FieldValue(EventsBy("SecurityLogger")[1].fields, "reason") =
            "Path traversal attempt"

\* C16: in a chain that starts with RequestIDMiddleware, every event any
\* middleware has emitted carries a request_id equal to the X-Request-ID
\* response header, and from the moment RequestIDMiddleware has run the
\* context holds under request_id the value chosen then: the inbound header
\* value, or the one identifier generated for the request.
C16_EventsCarryRequestID ==
    (chain[1] = "RequestIDMiddleware" /\ phase # "idle") =>
        /\ \A i \in 1..Len(log) :
            log[i].by \in Middleware =>
                /\ HasField(log[i].fields, "request_id")
                /\ FieldValue(log[i].fields, "request_id") =
                        ValueAt(respHeader, "X-Request-ID")
        /\ Entered("RequestIDMiddleware") =>
            /\ ValueAt(ctx, "request_id") # EmptyStr
            /\ ValueAt(ctx, "request_id") = ValueAt(respHeader, "X-Request-ID")
            /\ ValueAt(ctx, "request_id") =
                    IF ValueAt(req.header, "X-Request-ID") # EmptyStr
                    THEN ValueAt(req.header, "X-Request-ID")
                    ELSE issued[1]

C16_Witness ==
    /\ phase = "done"
    /\ chain = BodyChain
    /\ Len(EventsBy("RequestBodyLogger")) = 1
    /\ Len(EventsBy("GinLogger")) = 1
    /\ Len(EventsBy("ErrorLogger")) = 1
    /\ Len(EventsBy("RecoveryLogger")) = 1
    /\ Len(issued) = 1
    /\ \A i \in 1..Len(log) :
        FieldValue(log[i].fields, "request_id") = issued[1]

\* C17: for a request whose body is empty, no StructuredLogger event has a
\* request_body field and RequestBodyLogger emits no event.
C17_EmptyBodyNotCaptured ==
    (phase # "idle" /\ req.body.data = <<>> /\ ~req.body.err) =>
        /\ \A i \in 1..Len(log) :
            log[i].by = "StructuredLogger" =>
                ~HasField(log[i].fields, "request_body")
        /\ Len(EventsBy("RequestBodyLogger")) = 0

====
